---- MODULE Spec2Model ----
(***************************************************************************)
(* Time to Shop: the scoring pipeline of src/src/time_to_shop.             *)
(*                                                                         *)
(* These specifications share the definitions below:                       *)
(*   SpecDecile     the decile assignment of PurchasePredictor.predict     *)
(*                  (pd.cut over DECILE_BINS / DECILE_LABELS) followed by  *)
(*                  the integer conversion of _prepare_output, applied to  *)
(*                  pairs of probabilities;                                *)
(*   SpecPredictor  calls of load_model, predict and predict_with_metadata *)
(*                  on one PurchasePredictor;                              *)
(*   Spec           one PredictionPipeline.run, statement by statement,    *)
(*                  and SpecLive, the same run executed to its end;        *)
(*   SpecCleaner    DataLoader._preprocess_data on one raw frame;          *)
(*   SpecScoring    a cleaned frame scored and formatted;                  *)
(*   SpecConfig     Config.from_env under one environment;                 *)
(*   SpecClient     calls on one BigQueryClient.                           *)
(*                                                                         *)
(* Probabilities are fixed-point numbers with eight decimals, the          *)
(* precision the bin edges are written with: 0.19662877 is 19662877 and    *)
(* 1.0 is 100000000.  A missing value (NaN / None / NaT) is the empty      *)
(* sequence and a present value v is <<v>>.                                *)
(***************************************************************************)
EXTENDS Integers, Sequences, FiniteSets, TLC

VARIABLES
    \* ---- SpecDecile
    dPc,            \* "cut" -> "astype" -> "done"
    dP,             \* the column P: a pair of probabilities
    dLabel,         \* the column DECILE as pd.cut left it (labels, <<>> = NaN)
    dInt,           \* the column DECILE after astype(int)
    dErr,           \* the exception of the step that failed, or NoError
    \* ---- PurchasePredictor (SpecPredictor and Spec)
    model,          \* PurchasePredictor.model: <<>> (None) or <<artifact>>
    \* ---- SpecPredictor
    call,           \* the frame the caller scores and what its classifier answers
    loads,          \* the load_model calls so far: how the last one ended
                    \* ("never", "ok", "failed") and whether any succeeded
    last,           \* the last predict call: operation, argument, outcome
    \* ---- Spec: PredictionPipeline.run
    pc,             \* the statement of run that executes next
    args,           \* upload_to_bq, save_local
    raw,            \* the frame query_to_dataframe returned
    data,           \* run's local `data`: <<>> or <<cleaned frame>>
    predictions,    \* run's local `predictions`: <<>> or <<output rows>>
    proba,          \* what predict_proba returned in this run, <<>> if not invoked
    bq_table,       \* rows of the BigQuery output table
    csv_file,       \* <<>> (no file) or <<rows of the CSV file>>
    sink0,          \* the two sinks as they were when run was entered
    err,            \* the exception run is propagating, or NoError
    dl_client,      \* DataLoader.bq_client._bq_client
    pl_client,      \* PredictionPipeline.bq_client._bq_client
    dl_storage,     \* DataLoader.bq_client._bq_storage_client
    closes,         \* close() calls made by run's finally block, in order
    outcome,        \* "none", "returned" or "raised"
    \* ---- SpecCleaner: DataLoader._preprocess_data
    cHist,          \* the raw frame, then the frame after each statement
    \* ---- SpecScoring: a frame scored and formatted
    batch,          \* the frame, its row index labels, the classifier's answer
    scored,         \* <<>> or <<what the scoring function returned or raised>>
    formatted,      \* <<>> or <<what the Output Formatter made of it>>
    \* ---- SpecConfig: Config.from_env
    environ,        \* os.environ and the credentials file: <<>> before the call
    config,         \* <<>> or <<what from_env returned or raised>>
    \* ---- SpecClient: one BigQueryClient
    bqc,            \* its fields _bq_client and _bq_storage_client
    created,        \* the bigquery.Client objects constructed so far
    log             \* the calls made on it, each with what it returned

decileVars == <<dPc, dP, dLabel, dInt, dErr>>
predictorVars == <<call, loads, last>>
runVars == <<pc, args, raw, data, predictions, proba, bq_table, csv_file,
             sink0, err, dl_client, pl_client, dl_storage, closes, outcome>>
cleanerVars == <<cHist>>
scoringVars == <<batch, scored, formatted>>
configVars == <<environ, config>>
clientVars == <<bqc, created, log>>
otherVars == <<cleanerVars, scoringVars, configVars, clientVars>>
vars == <<decileVars, model, predictorVars, runVars, otherVars>>

----------------------------------------------------------------------------
(* Values *)

NA == <<>>
Val(v) == <<v>>
IsNA(c) == c = <<>>
Get(c) == c[1]

\* 1.0 in the probability scale
ProbOne == 10 ^ 8

NoError == [kind |-> "none", cols |-> {}]
Error(k) == [kind |-> k, cols |-> {}]

----------------------------------------------------------------------------
(* core/constants.py *)

FEATURE_COLUMNS ==
    << "SALES_6M", "FREQUENCY_6M", "BUYS_Q_03", "COUPON_Q_03", "PH_MREDEEM90D",
       "PH_PFREQ90D", "PH_CFREQ90D", "BBB_INSTORE_RFM_DECILE",
       "BBB_ECOM_R_DECILE", "BBB_OFFCOUPON_RFM_DECILE", "NUM_PERIODS",
       "NUM_PRODUCT_GROUPS", "PRESENCE_OF_CHILD", "MARITAL_STAT" >>

KEY_COLUMNS == << "CUSTOMER_ID", "ADDRESS_ID" >>

INT_COLUMNS ==
    << "SALES_6M", "COUPON_EXPENSE_6M", "BUYS_Q_03", "COUPON_Q_03",
       "PH_MREDEEM90D", "PH_PFREQ90D", "PH_CFREQ90D", "BBB_INSTORE_RFM_DECILE",
       "BBB_ECOM_R_DECILE", "BBB_OFFCOUPON_RFM_DECILE", "PCT_TXNS_ON_MKD_DISC" >>

FILL_VALUE_DECILE == 11
FILL_VALUE_RECENCY == 366
FILL_VALUE_DEFAULT == 0

\* the edges without the last one
DECILE_BINS_NoTop ==
    << 0, 19662877, 21054794, 25123934, 26712146, 42682036, 49329300,
       59348687, 67486295, 77079006 >>

\* 0.00, 0.19662877, ..., 0.77079006, 1.0
DECILE_BINS ==
    << 0, 19662877, 21054794, 25123934, 26712146, 42682036, 49329300,
       59348687, 67486295, 77079006, 100000000 >>

\* the labels are strings: each is the sequence of its characters
DECILE_LABELS ==
    << <<"1", "0">>, <<"9">>, <<"8">>, <<"7">>, <<"6">>,
       <<"5">>, <<"4">>, <<"3">>, <<"2">>, <<"1">> >>

Range(s) == { s[i] : i \in DOMAIN s }

----------------------------------------------------------------------------
(* Decile assignment: pd.cut(output['P'], bins=DECILE_BINS,                *)
(* labels=DECILE_LABELS), with pandas' defaults right=True and             *)
(* include_lowest=False.                                                   *)

\* numpy's bins.searchsorted(x, side='left'): how many edges lie below x
SearchSortedLeft(bins, x) == Cardinality({ i \in DOMAIN bins : bins[i] < x })

\* the same with side='right' (right=False): how many edges are at most x
SearchSortedRight(bins, x) == Cardinality({ i \in DOMAIN bins : bins[i] <= x })

\* pd.cut's bin code of x, 0-based: bin i is (bins[i], bins[i+1]].  A value at
\* or below the first edge, or above the last one, has no bin: NA.
BinCodeLeftClosed(bins, x) ==
    LET ids == SearchSortedRight(bins, x)
    IN  IF ids = 0 \/ ids = Len(bins) THEN NA ELSE Val(ids - 1)

BinCode(bins, x) ==
    LET ids == SearchSortedLeft(bins, x)
    IN  IF ids = 0 \/ ids = Len(bins) THEN NA ELSE Val(ids - 1)

\* a cut that clamps a value outside the edges into the nearest bin
CutClamped(bins, labels, x) ==
    LET code == BinCode(bins, x)
    IN  IF ~IsNA(code) THEN labels[Get(code) + 1]
        ELSE IF x <= bins[1] THEN labels[1] ELSE labels[Len(labels)]

\* the categorical value pd.cut gives x: the label of its bin, or NA (NaN)
Cut(bins, labels, x) ==
    LET code == BinCode(bins, x)
    IN  IF IsNA(code) THEN NA ELSE labels[Get(code) + 1]

\* int() of one character of a decimal string
DigitValue(ch) ==
    CASE ch = "0" -> 0 [] ch = "1" -> 1 [] ch = "2" -> 2 [] ch = "3" -> 3
      [] ch = "4" -> 4 [] ch = "5" -> 5 [] ch = "6" -> 6 [] ch = "7" -> 7
      [] ch = "8" -> 8 [] ch = "9" -> 9

\* the integer a decimal string denotes (numpy's str -> int cast)
RECURSIVE ParseInt(_)
ParseInt(s) ==
    IF Len(s) = 0 THEN 0
    ELSE 10 * ParseInt(SubSeq(s, 1, Len(s) - 1)) + DigitValue(s[Len(s)])

\* Categorical.astype(int) that lets a missing value through as 0
AstypeIntLenient(col) ==
    [ok |-> TRUE, col |-> [i \in DOMAIN col |-> ParseInt(col[i])]]

\* Categorical.astype(int) on the column DECILE: pandas refuses a column that
\* holds NaN ("Cannot convert float NaN to integer"), else casts the labels.
AstypeInt(col) ==
    IF \E i \in DOMAIN col : IsNA(col[i])
    THEN [ok |-> FALSE, col |-> <<>>]
    ELSE [ok |-> TRUE, col |-> [i \in DOMAIN col |-> ParseInt(col[i])]]

----------------------------------------------------------------------------
(* Frames: a DataFrame is its column names and its rows in positional      *)
(* order; a row maps each column name to a cell.  Numeric cells count      *)
(* tenths, so that 250.7 is 2507 and the integer 100 is 1000.              *)

Whole(n) == 10 * n

\* a cast that takes the next whole number above
TruncNext(v) == v - (v % 10) + 10

\* float -> int as numpy casts it: towards zero
Trunc(v) == IF v >= 0 THEN v - (v % 10) ELSE -((-v) - ((-v) % 10))

Frame(cols, rows) == [columns |-> cols, rows |-> rows]

\* the columns of the production table the code names, and one recency
\* column of the "arbitrary column superset" the source may return
AllColumns ==
    Range(FEATURE_COLUMNS) \cup Range(KEY_COLUMNS) \cup Range(INT_COLUMNS)
        \cup {"PREVIOUS_PURCHASE", "INSTORE_R"}

\* 'DECILE' in col
ContainsDECILE(col) ==
    col \in {"BBB_INSTORE_RFM_DECILE", "BBB_ECOM_R_DECILE",
             "BBB_OFFCOUPON_RFM_DECILE"}

\* '_R' in col
Contains_R(col) ==
    col \in {"BBB_INSTORE_RFM_DECILE", "BBB_ECOM_R_DECILE",
             "BBB_OFFCOUPON_RFM_DECILE", "INSTORE_R"}

----------------------------------------------------------------------------
(* core/data_loader.py: the Record Cleaner *)

\* the recency test taken first
FillValueRecencyFirst(col) ==
    IF Contains_R(col) THEN Whole(FILL_VALUE_RECENCY)
    ELSE IF ContainsDECILE(col) THEN Whole(FILL_VALUE_DECILE)
    ELSE Whole(FILL_VALUE_DEFAULT)

\* the value fillna puts in a column, chosen by the column's name
FillValue(col) ==
    IF ContainsDECILE(col) THEN Whole(FILL_VALUE_DECILE)
    ELSE IF Contains_R(col) /\ ~ContainsDECILE(col) THEN Whole(FILL_VALUE_RECENCY)
    ELSE Whole(FILL_VALUE_DEFAULT)

fill_missing_values(df) ==
    Frame(df.columns,
          [k \in DOMAIN df.rows |->
              [col \in df.columns |->
                  IF IsNA(df.rows[k][col]) THEN Val(FillValue(col))
                  ELSE df.rows[k][col]]])

\* only SALES_6M is clamped
fix_negative_sales_only(df) ==
    Frame(df.columns,
          [k \in DOMAIN df.rows |->
              [col \in df.columns |->
                  IF /\ col = "SALES_6M"
                     /\ ~IsNA(df.rows[k][col])
                     /\ Get(df.rows[k][col]) < 0
                  THEN Val(0)
                  ELSE df.rows[k][col]]])

\* df.loc[df[col] < 0, col] = 0 for the two monetary columns, when present
fix_negative_values(df) ==
    Frame(df.columns,
          [k \in DOMAIN df.rows |->
              [col \in df.columns |->
                  IF /\ col \in {"SALES_6M", "COUPON_EXPENSE_6M"}
                     /\ ~IsNA(df.rows[k][col])
                     /\ Get(df.rows[k][col]) < 0
                  THEN Val(0)
                  ELSE df.rows[k][col]]])

\* astype("object") keeps every value of the key columns; astype('int')
\* truncates the integer columns that are present.  A missing value in an
\* integer column makes astype raise; fill_missing_values has run before.
convert_data_types(df) ==
    Frame(df.columns,
          [k \in DOMAIN df.rows |->
              [col \in df.columns |->
                  IF col \in Range(INT_COLUMNS) /\ ~IsNA(df.rows[k][col])
                  THEN Val(Trunc(Get(df.rows[k][col])))
                  ELSE df.rows[k][col]]])

preprocess_data(df) ==
    convert_data_types(fix_negative_values(fill_missing_values(df)))

\* the dtype of each column, statement by statement.  fillna leaves a
\* numeric column numeric; a datetime column that holds NaT takes the fill
\* value 0 only as an object column.
fill_dtypes(df, dt) ==
    [col \in df.columns |->
        IF dt[col] = "datetime64[ns]" /\ \E k \in DOMAIN df.rows : IsNA(df.rows[k][col])
        THEN "object" ELSE dt[col]]

\* setting 0 where the value is negative keeps the column's dtype
fix_dtypes(df, dt) == dt

\* astype("object") on the key columns, astype('int') on the integer columns
convert_dtypes(df, dt) ==
    [col \in df.columns |->
        IF col \in Range(KEY_COLUMNS) THEN "object"
        ELSE IF col \in Range(INT_COLUMNS) THEN "int64"
        ELSE dt[col]]

----------------------------------------------------------------------------
(* models/predictor.py: PurchasePredictor *)

\* the set difference taken the other way round
missing_features_reversed(df) == df.columns \ Range(FEATURE_COLUMNS)

\* set(FEATURE_COLUMNS) - set(data.columns)
missing_features(df) == Range(FEATURE_COLUMNS) \ df.columns

\* load_model on a predictor whose model attribute is m.  `file` is the state
\* of the artifact at the path: "absent" (model_file.exists() is false),
\* "corrupt" (pickle.load raises) or "ok".  self.model is assigned only when
\* pickle.load returns.
load_model(m, file) ==
    IF file = "absent"
    THEN [model |-> m, err |-> Error("FileNotFoundError")]
    ELSE IF file = "corrupt"
    THEN [model |-> m, err |-> Error("UnpicklingError")]
    ELSE [model |-> Val("classifier"), err |-> NoError]

\* each record paired with the probability of the row opposite to it
ScoredRowsReversed(df, p) ==
    [k \in DOMAIN df.rows |->
        [CUSTOMER_ID |-> df.rows[k]["CUSTOMER_ID"],
         PREVIOUS_PURCHASE |-> df.rows[k]["PREVIOUS_PURCHASE"],
         P |-> p[Len(p) + 1 - k],
         DECILE |-> Cut(DECILE_BINS, DECILE_LABELS, p[Len(p) + 1 - k])]]

\* the frame predict builds from the probabilities p the classifier returned:
\* the columns are taken with .values, by position
ScoredRows(df, p) ==
    [k \in DOMAIN df.rows |->
        [CUSTOMER_ID |-> df.rows[k]["CUSTOMER_ID"],
         PREVIOUS_PURCHASE |-> df.rows[k]["PREVIOUS_PURCHASE"],
         P |-> p[k],
         DECILE |-> Cut(DECILE_BINS, DECILE_LABELS, p[k])]]

\* predict whose feature validation comes after the classifier has run
predict_late_check(m, df, resp) ==
    IF IsNA(m)
    THEN [err |-> Error("ModelNotLoaded"), out |-> NA, invoked |-> 0]
    ELSE IF resp.raises \/ missing_features(df) # {}
    THEN [err |-> Error("ClassifierError"), out |-> NA, invoked |-> 1]
    ELSE [err |-> NoError, out |-> Val(ScoredRows(df, resp.p)), invoked |-> 1]

\* predict that goes on without a model
predict_no_guard(m, df, resp) ==
    IF missing_features(df) # {}
    THEN [err |-> [kind |-> "MissingFeatures", cols |-> missing_features(df)],
          out |-> NA, invoked |-> 0]
    ELSE IF resp.raises
    THEN [err |-> Error("ClassifierError"), out |-> NA, invoked |-> 1]
    ELSE [err |-> NoError, out |-> Val(ScoredRows(df, resp.p)), invoked |-> 1]

\* predict(data) on a predictor whose model attribute is m.  resp is what the
\* classifier does when predict_proba is called: it raises, or it returns the
\* positive-class probabilities resp.p, one per row.  `invoked` counts the
\* calls made to the classifier.
predict(m, df, resp) ==
    IF IsNA(m)
    THEN [err |-> Error("ModelNotLoaded"), out |-> NA, invoked |-> 0]
    ELSE IF missing_features(df) # {}
    THEN [err |-> [kind |-> "MissingFeatures", cols |-> missing_features(df)],
          out |-> NA, invoked |-> 0]
    ELSE IF resp.raises
    THEN [err |-> Error("ClassifierError"), out |-> NA, invoked |-> 1]
    ELSE [err |-> NoError, out |-> Val(ScoredRows(df, resp.p)), invoked |-> 1]

\* predict_with_metadata(data): predict, then the classifier's hard labels
\* (model.predict), which may raise in their turn; y are the labels.
predict_with_metadata(m, df, resp, y) ==
    LET r == predict(m, df, resp)
    IN  IF r.err # NoError THEN r
        ELSE IF y.raises
        THEN [err |-> Error("ClassifierError"), out |-> NA, invoked |-> 2]
        ELSE [err |-> NoError,
              out |-> Val([k \in DOMAIN Get(r.out) |->
                              [CUSTOMER_ID |-> Get(r.out)[k].CUSTOMER_ID,
                               PREVIOUS_PURCHASE |-> Get(r.out)[k].PREVIOUS_PURCHASE,
                               P |-> Get(r.out)[k].P,
                               DECILE |-> Get(r.out)[k].DECILE,
                               PREDICTED_CLASS |-> y.labels[k]]]),
              invoked |-> 2]

----------------------------------------------------------------------------
(* core/pipeline.py: the Output Formatter *)

\* pd.to_datetime on one cell.  A date is the number yyyymmdd; the integer 0
\* that fillna put in place of NaT is read as nanoseconds since the epoch,
\* 1970-01-01; NaT stays NaT.
to_datetime(v) ==
    IF IsNA(v) THEN v
    ELSE IF Get(v) = 0 THEN Val(19700101)
    ELSE v

\* the index labels left as they came
keep_index(index) == index

\* reset_index(drop=True): the rows are numbered 0, 1, ..., n-1
reset_index(index) == [k \in DOMAIN index |-> k - 1]

\* _prepare_output(predictions): the rows keep their order and are renumbered
\* (reset_index); CUSTOMER_ID is cast to int, PREVIOUS_PURCHASE goes through
\* pd.to_datetime, DECILE is cast to int and P to float.  Either integer cast
\* raises on a column that holds a missing value.
prepare_output(rows) ==
    LET dec == AstypeInt([k \in DOMAIN rows |-> rows[k].DECILE])
    IN  IF \E k \in DOMAIN rows : IsNA(rows[k].CUSTOMER_ID)
        THEN [err |-> Error("ValueError"), out |-> <<>>]
        ELSE IF ~dec.ok
        THEN [err |-> Error("ValueError"), out |-> <<>>]
        ELSE [err |-> NoError,
              out |-> [k \in DOMAIN rows |->
                          [CUSTOMER_ID |-> Val(Trunc(Get(rows[k].CUSTOMER_ID))),
                           PREVIOUS_PURCHASE |-> to_datetime(rows[k].PREVIOUS_PURCHASE),
                           P |-> rows[k].P,
                           DECILE |-> dec.col[k]]]]

----------------------------------------------------------------------------
(* core/config.py *)

\* the variables from_env reads
EnvNames ==
    { "GCP_CREDENTIALS_PATH", "GCP_PROJECT_ID", "BQ_DATASET", "BQ_INPUT_TABLE",
      "BQ_OUTPUT_TABLE", "MODEL_PATH", "LOG_LEVEL" }

\* the class attributes of the dataclass
ConfigDefaults ==
    [gcp_project_id |-> NA, gcp_credentials_path |-> NA,
     bq_dataset |-> Val("SANDBOX_ANALYTICS"),
     bq_input_table |-> Val("TTS_Production"),
     bq_output_table |-> Val("time_to_shop"),
     model_path |-> Val("finalized_model.sav"),
     log_level |-> Val("INFO")]

\* os.getenv(name): the value, or None
getenv(env, name) == env[name]

\* os.getenv(name) or default: an empty value counts as unset
getenv_or(env, name, default) ==
    IF IsNA(env[name]) \/ env[name] = Val("") THEN default ELSE env[name]

\* os.getenv(name, default): the value whenever the variable is set, the
\* empty string included
getenv_default(env, name, default) ==
    IF IsNA(env[name]) THEN default ELSE env[name]

\* Python's truth value of an Optional[str]
Truthy(v) == ~IsNA(v) /\ v # Val("")

\* Config.from_env() under the environment env; exists tells whether the
\* file GCP_CREDENTIALS_PATH names is there
from_env(env, exists) ==
    LET gcp_credentials_path == getenv(env, "GCP_CREDENTIALS_PATH")
        gcp_project_id == getenv(env, "GCP_PROJECT_ID")
    IN  IF Truthy(gcp_credentials_path) /\ ~exists
        THEN [err |-> Error("ValueError"), cfg |-> NA]
        ELSE [err |-> NoError,
              cfg |-> Val(
                [gcp_project_id |-> gcp_project_id,
                 gcp_credentials_path |-> gcp_credentials_path,
                 bq_dataset |->
                     getenv_default(env, "BQ_DATASET", ConfigDefaults.bq_dataset),
                 bq_input_table |->
                     getenv_default(env, "BQ_INPUT_TABLE",
                                    ConfigDefaults.bq_input_table),
                 bq_output_table |->
                     getenv_default(env, "BQ_OUTPUT_TABLE",
                                    ConfigDefaults.bq_output_table),
                 model_path |->
                     getenv_default(env, "MODEL_PATH", ConfigDefaults.model_path),
                 log_level |->
                     getenv_default(env, "LOG_LEVEL", ConfigDefaults.log_level)])]

----------------------------------------------------------------------------
(* scorer.py: the script the package was made from *)

\* the index of a frame built from arrays: 0, 1, ..., n-1
RangeIndex(n) == [k \in 1..n |-> k - 1]

RECURSIVE MatchesFrom(_, _, _)
\* the positions from j on whose label is l
MatchesFrom(index, l, j) ==
    IF j > Len(index) THEN <<>>
    ELSE (IF index[j] = l THEN <<j>> ELSE <<>>) \o MatchesFrom(index, l, j + 1)

RECURSIVE MergePairsFrom(_, _)
MergePairsFrom(index, i) ==
    IF i > Len(index) THEN <<>>
    ELSE LET js == MatchesFrom(index, index[i], 1)
         IN  [m \in DOMAIN js |-> <<i, js[m]>>] \o MergePairsFrom(index, i + 1)

\* pd.merge(left, right, how='left', left_index=True, right_index=True) of
\* two frames that carry the same index labels: every pair of a left and a
\* right position whose labels are equal, in the order of the left rows
merge_on_index(index) == MergePairsFrom(index, 1)

\* extratrees_predict(data, model): the feature selection raises when a
\* column is absent; the probabilities are put in a frame that carries the
\* index labels of data and joined to CUSTOMER_ID and PREVIOUS_PURCHASE on
\* those labels
extratrees_predict(df, index, resp) ==
    IF missing_features(df) # {}
    THEN [err |-> Error("KeyError"), out |-> NA, index |-> <<>>]
    ELSE IF resp.raises
    THEN [err |-> Error("ClassifierError"), out |-> NA, index |-> <<>>]
    ELSE LET pairs == merge_on_index(index)
         IN  [err |-> NoError,
              out |-> Val([m \in DOMAIN pairs |->
                              [CUSTOMER_ID |-> df.rows[pairs[m][1]]["CUSTOMER_ID"],
                               PREVIOUS_PURCHASE |->
                                   df.rows[pairs[m][1]]["PREVIOUS_PURCHASE"],
                               P |-> resp.p[pairs[m][2]],
                               DECILE |-> Cut(DECILE_BINS, DECILE_LABELS,
                                              resp.p[pairs[m][2]])]]),
              index |-> [m \in DOMAIN pairs |-> index[pairs[m][1]]]]

----------------------------------------------------------------------------
(* Inputs *)

\* rows of a batch
MaxRows == 2

\* a raw row: every column the code does not single out holds 1
RawRow(cid, pp, sales, dec, rec) ==
    [col \in AllColumns |->
        CASE col = "CUSTOMER_ID" -> cid
          [] col = "PREVIOUS_PURCHASE" -> pp
          [] col = "SALES_6M" -> sales
          [] col = "BBB_INSTORE_RFM_DECILE" -> dec
          [] col = "INSTORE_R" -> rec
          [] OTHER -> Val(Whole(1))]

\* a customer with every value present (SALES_6M is 250.7), and one whose
\* PREVIOUS_PURCHASE, decile and recency are missing and whose SALES_6M is -50
RawRows ==
    { RawRow(Val(Whole(1001)), Val(20240101), Val(2507), Val(Whole(5)),
             Val(Whole(30))),
      RawRow(Val(Whole(1002)), NA, Val(Whole(-50)), NA, NA) }

Batches == UNION { [1..n -> RawRows] : n \in 0..MaxRows }

\* the column sets a source table may lack
DropSets ==
    { {}, {"SALES_6M"}, {"NUM_PERIODS", "MARITAL_STAT", "COUPON_EXPENSE_6M"} }

Restrict(row, cols) == [col \in cols |-> row[col]]

RawFrames ==
    { Frame(AllColumns \ d, [k \in DOMAIN b |-> Restrict(b[k], AllColumns \ d)]) :
        d \in DropSets, b \in Batches }

\* positive-class probabilities a classifier may return: 0.0, the first
\* interior edge, 0.5 and 1.0, and what a defective classifier may return:
\* a value below 0 and one above 1
RunProbs ==
    { -1, DECILE_BINS[1], DECILE_BINS[2], ProbOne \div 2, ProbOne, ProbOne + 1 }

\* the classifier's answer to predict_proba on n rows
Responses(n) ==
    { [raises |-> TRUE, p |-> <<>>] } \cup
    { [raises |-> FALSE, p |-> v] : v \in [1..n -> RunProbs] }

\* the classifier's hard labels for the rows it gave the probabilities p:
\* the class with the larger probability mass
HardLabels(raises, p) ==
    [raises |-> raises,
     labels |-> IF raises THEN <<>>
                ELSE [k \in DOMAIN p |-> IF 2 * p[k] > ProbOne THEN 1 ELSE 0]]

\* a row an earlier run left in a sink
OldRow ==
    [CUSTOMER_ID |-> Val(Whole(999)), PREVIOUS_PURCHASE |-> Val(20231231),
     P |-> ProbOne, DECILE |-> 1]

----------------------------------------------------------------------------
(* Initial states *)

NoLoads == [last |-> "never", ever_ok |-> FALSE]

NoCall == [op |-> "none", model |-> NA, loads |-> NoLoads, err |-> NoError,
           out |-> NA, invoked |-> 0]

DecileIdle ==
    /\ dPc = "idle" /\ dP = <<>> /\ dLabel = <<>> /\ dInt = <<>>
    /\ dErr = NoError

PredictorIdle ==
    /\ call = [df |-> Frame({}, <<>>), resp |-> [raises |-> TRUE, p |-> <<>>]]
    /\ loads = NoLoads
    /\ last = NoCall

CleanerIdle == cHist = <<>>

ScoringIdle ==
    /\ batch = [df |-> Frame({}, <<>>), index |-> <<>>,
                resp |-> [raises |-> TRUE, p |-> <<>>]]
    /\ scored = NA /\ formatted = NA

ConfigIdle == environ = NA /\ config = NA

\* BigQueryClient.__init__: no client yet
NewBigQueryClient == [_bq_client |-> NA, _bq_storage_client |-> NA]

ClientIdle == bqc = NewBigQueryClient /\ created = 0 /\ log = <<>>

\* a pipeline as __init__ leaves it; the sinks are empty or hold an earlier
\* run's rows
RunIdle ==
    /\ pc = "idle"
    /\ args = [upload_to_bq |-> FALSE, save_local |-> FALSE]
    /\ raw = NA /\ data = NA /\ predictions = NA /\ proba = NA
    /\ bq_table \in { <<>>, <<OldRow>> }
    /\ csv_file \in { NA, Val(<<OldRow>>) }
    /\ sink0 = [bq |-> bq_table, csv |-> csv_file]
    /\ err = NoError
    /\ dl_client = NA /\ pl_client = NA /\ dl_storage = NA
    /\ closes = <<>>
    /\ outcome = "none"

----------------------------------------------------------------------------
(* SpecDecile: P -> pd.cut -> astype(int) on a column of one or two        *)
(* probabilities                                                           *)

\* every bin edge, its two neighbours at the eighth decimal, and 0.5
ProbGrid ==
    { DECILE_BINS[i] + d : i \in DOMAIN DECILE_BINS, d \in {-1, 0, 1} }
        \cup { ProbOne \div 2 }

InitDecile ==
    /\ dPc = "cut"
    /\ dP \in [1..1 -> ProbGrid] \cup [1..2 -> ProbGrid]
    /\ dLabel = <<>> /\ dInt = <<>> /\ dErr = NoError
    /\ model = NA /\ PredictorIdle
    /\ RunIdle /\ bq_table = <<>> /\ csv_file = NA
    /\ CleanerIdle /\ ScoringIdle /\ ConfigIdle /\ ClientIdle

\* predictor.py 98-102
CutStep ==
    /\ dPc = "cut"
    /\ dLabel' = [i \in DOMAIN dP |-> Cut(DECILE_BINS, DECILE_LABELS, dP[i])]
    /\ dPc' = "astype"
    /\ UNCHANGED <<dP, dInt, dErr, model, predictorVars, runVars, otherVars>>

\* pipeline.py 118
AstypeStep ==
    /\ dPc = "astype"
    /\ LET r == AstypeInt(dLabel)
       IN  /\ dInt' = r.col
           /\ dErr' = IF r.ok THEN NoError ELSE Error("ValueError")
    /\ dPc' = "done"
    /\ UNCHANGED <<dP, dLabel, model, predictorVars, runVars, otherVars>>

NextDecile == CutStep \/ AstypeStep

SpecDecile == InitDecile /\ [][NextDecile]_vars

----------------------------------------------------------------------------
(* SpecPredictor: calls on one PurchasePredictor *)

\* frames handed to predict: what the Record Cleaner returns
CleanFrames == { preprocess_data(f) : f \in RawFrames }

\* a cleaned frame and the classifier's answer for its rows
Calls ==
    UNION { { [df |-> df, resp |-> resp] : resp \in Responses(Len(df.rows)) } :
              df \in CleanFrames }

InitPredictor ==
    /\ model = NA
    /\ call \in Calls
    /\ loads = NoLoads
    /\ last = NoCall
    /\ DecileIdle
    /\ RunIdle /\ bq_table = <<>> /\ csv_file = NA
    /\ CleanerIdle /\ ScoringIdle /\ ConfigIdle /\ ClientIdle

ApiLoadModel ==
    \E file \in {"absent", "corrupt", "ok"} :
        LET r == load_model(model, file)
        IN  /\ model' = r.model
            /\ loads' = IF r.err = NoError
                         THEN [last |-> "ok", ever_ok |-> TRUE]
                         ELSE [last |-> "failed", ever_ok |-> loads.ever_ok]
            /\ UNCHANGED <<call, last, decileVars, runVars, otherVars>>

ApiPredict ==
    LET r == predict(model, call.df, call.resp)
    IN  /\ last' = [op |-> "predict", model |-> model, loads |-> loads,
                    err |-> r.err, out |-> r.out, invoked |-> r.invoked]
        /\ UNCHANGED <<model, call, loads, decileVars, runVars, otherVars>>

ApiPredictWithMetadata ==
    \E yraises \in BOOLEAN :
        LET r == predict_with_metadata(model, call.df, call.resp,
                                       HardLabels(yraises, call.resp.p))
        IN  /\ last' = [op |-> "predict_with_metadata", model |-> model,
                        loads |-> loads, err |-> r.err, out |-> r.out,
                        invoked |-> r.invoked]
            /\ UNCHANGED <<model, call, loads, decileVars, runVars, otherVars>>

NextPredictor == ApiLoadModel \/ ApiPredict \/ ApiPredictWithMetadata

SpecPredictor == InitPredictor /\ [][NextPredictor]_vars

----------------------------------------------------------------------------
(* Spec: one PredictionPipeline.run(query, upload_to_bq, save_local,       *)
(* output_path), one action per statement of its try block, then the       *)
(* finally block.  A statement that raises leaves err set and control      *)
(* goes to the finally block, after which the exception reaches the        *)
(* caller.                                                                 *)

Init ==
    /\ RunIdle
    /\ model = NA
    /\ PredictorIdle
    /\ DecileIdle
    /\ CleanerIdle /\ ScoringIdle /\ ConfigIdle /\ ClientIdle

Raise(e) == err' = e /\ pc' = "finally"

\* the caller enters run
RunStart ==
    /\ pc = "idle"
    /\ \E u \in BOOLEAN, l \in BOOLEAN :
           args' = [upload_to_bq |-> u, save_local |-> l]
    /\ sink0' = [bq |-> bq_table, csv |-> csv_file]
    /\ pc' = "load_data"
    /\ UNCHANGED <<raw, data, predictions, proba, bq_table, csv_file, err,
                   dl_client, pl_client, dl_storage, closes, outcome, model,
                   predictorVars, decileVars, otherVars>>

\* data = self.data_loader.load_data(query): the query through the loader's
\* lazily created client, then _preprocess_data on what it returned
LoadData ==
    /\ pc = "load_data"
    /\ \/ \* bigquery.Client(...) raises
          /\ Raise(Error("SourceError"))
          /\ UNCHANGED <<raw, data, dl_client, dl_storage>>
       \/ \* the query, or BigQueryReadClient(...), raises
          /\ dl_client' = Val("open")
          /\ Raise(Error("SourceError"))
          /\ UNCHANGED <<raw, data, dl_storage>>
       \/ \* result.to_dataframe(bqstorage_client=...) raises
          /\ dl_client' = Val("open")
          /\ dl_storage' = Val("open")
          /\ Raise(Error("SourceError"))
          /\ UNCHANGED <<raw, data>>
       \/ \E df \in RawFrames :
              /\ dl_client' = Val("open")
              /\ dl_storage' = Val("open")
              /\ raw' = Val(df)
              /\ data' = Val(preprocess_data(df))
              /\ pc' = "load_model"
              /\ UNCHANGED err
    /\ UNCHANGED <<args, predictions, proba, bq_table, csv_file, sink0,
                   pl_client, closes, outcome, model, predictorVars,
                   decileVars, otherVars>>

\* self.predictor.load_model()
LoadModel ==
    /\ pc = "load_model"
    /\ \E file \in {"absent", "corrupt", "ok"} :
           LET r == load_model(model, file)
           IN  /\ model' = r.model
               /\ IF r.err = NoError
                  THEN pc' = "predict" /\ UNCHANGED err
                  ELSE Raise(r.err)
    /\ UNCHANGED <<args, raw, data, predictions, proba, bq_table, csv_file,
                   sink0, dl_client, pl_client, dl_storage, closes, outcome,
                   predictorVars, decileVars, otherVars>>

\* predictions = self.predictor.predict(data)
Predict ==
    /\ pc = "predict"
    /\ \E resp \in Responses(Len(Get(data).rows)) :
           LET r == predict(model, Get(data), resp)
           IN  /\ proba' = IF r.invoked > 0 THEN Val(resp) ELSE NA
               /\ IF r.err = NoError
                  THEN /\ predictions' = r.out
                       /\ pc' = "prepare_output"
                       /\ UNCHANGED err
                  ELSE Raise(r.err) /\ UNCHANGED predictions
    /\ UNCHANGED <<args, raw, data, bq_table, csv_file, sink0, dl_client,
                   pl_client, dl_storage, closes, outcome, model, predictorVars,
                   decileVars, otherVars>>

\* predictions = self._prepare_output(predictions)
PrepareOutput ==
    /\ pc = "prepare_output"
    /\ LET r == prepare_output(Get(predictions))
       IN  IF r.err = NoError
           THEN /\ predictions' = Val(r.out)
                /\ pc' = "upload"
                /\ UNCHANGED err
           ELSE Raise(r.err) /\ UNCHANGED predictions
    /\ UNCHANGED <<args, raw, data, proba, bq_table, csv_file, sink0,
                   dl_client, pl_client, dl_storage, closes, outcome, model,
                   predictorVars, decileVars, otherVars>>

\* if upload_to_bq: self._upload_to_bigquery(predictions), that is
\* df.to_gbq(..., if_exists='append'), which appends the rows or raises
Upload ==
    /\ pc = "upload"
    /\ IF args.upload_to_bq
       THEN \/ /\ bq_table' = bq_table \o Get(predictions)
               /\ pc' = "save_local"
               /\ UNCHANGED err
            \/ /\ Raise(Error("UploadError"))
               /\ UNCHANGED bq_table
       ELSE pc' = "save_local" /\ UNCHANGED <<bq_table, err>>
    /\ UNCHANGED <<args, raw, data, predictions, proba, csv_file, sink0,
                   dl_client, pl_client, dl_storage, closes, outcome, model,
                   predictorVars, decileVars, otherVars>>

\* if save_local: predictions.to_csv(path, index=False), which writes the
\* file anew or raises; then _print_summary and return predictions
SaveLocal ==
    /\ pc = "save_local"
    /\ IF args.save_local
       THEN \/ /\ csv_file' = predictions
               /\ pc' = "finally"
               /\ UNCHANGED err
            \/ /\ Raise(Error("CsvError"))
               /\ UNCHANGED csv_file
       ELSE pc' = "finally" /\ UNCHANGED <<csv_file, err>>
    /\ UNCHANGED <<args, raw, data, predictions, proba, bq_table, sink0,
                   dl_client, pl_client, dl_storage, closes, outcome, model,
                   predictorVars, decileVars, otherVars>>

\* a close() that leaves the client as it is
close_nothing(client) == client

\* a close() after which the wrapper holds no client
close_and_clear(client) == NA

\* BigQueryClient.close(): closes the client the wrapper has created, if any
close(client) == IF IsNA(client) THEN client ELSE Val("closed")

\* finally: self.data_loader.close(); self.bq_client.close().  Neither
\* touches a _bq_storage_client.  Then run returns predictions, or the
\* exception goes on to the caller.
Finally ==
    /\ pc = "finally"
    /\ dl_client' = close(dl_client)
    /\ pl_client' = close(pl_client)
    /\ closes' = <<"data_loader", "bq_client">>
    /\ outcome' = IF err = NoError THEN "returned" ELSE "raised"
    /\ pc' = "done"
    /\ UNCHANGED <<args, raw, data, predictions, proba, bq_table, csv_file,
                   sink0, err, dl_storage, model, predictorVars, decileVars,
                   otherVars>>

Next ==
    \/ RunStart \/ LoadData \/ LoadModel \/ Predict \/ PrepareOutput
    \/ Upload \/ SaveLocal \/ Finally

Spec == Init /\ [][Next]_vars

\* run is sequential code: a statement that can execute does.  The sinks
\* start empty: what they hold has no part in which statement runs next.
InitLive == Init /\ bq_table = <<>> /\ csv_file = NA

SpecLive == InitLive /\ [][Next]_vars /\ WF_vars(Next)

----------------------------------------------------------------------------
(* SpecCleaner: DataLoader._preprocess_data on one raw frame, statement by *)
(* statement, and then again on its own result                             *)

\* passes of _preprocess_data over the frame
MaxPasses == 2

\* a raw row whose monetary, decile, recency and date cells vary
CleanerRows ==
    { [RawRow(Val(Whole(1001)), pp, sales, dec, rec)
          EXCEPT !["COUPON_EXPENSE_6M"] = coupon, !["BBB_ECOM_R_DECILE"] = ecom] :
        pp \in {NA, Val(20240101)},
        sales \in {NA, Val(Whole(-50)), Val(-5), Val(2507)},
        coupon \in {NA, Val(Whole(-3)), Val(Whole(2))},
        dec \in {NA, Val(Whole(5))},
        ecom \in {NA, Val(Whole(4))},
        rec \in {NA, Val(Whole(30))} }

\* SALES_6M = [100, -50, 250, 0, 400]
ScenarioSales == << 100, -50, 250, 0, 400 >>

ScenarioFrame ==
    Frame(AllColumns,
          [k \in DOMAIN ScenarioSales |->
              RawRow(Val(Whole(1000 + k)), Val(20240101),
                     Val(Whole(ScenarioSales[k])), Val(Whole(5)), Val(Whole(30)))])

CleanerFrames ==
    { Frame(AllColumns \ d, <<Restrict(r, AllColumns \ d)>>) :
        d \in DropSets, r \in CleanerRows }
      \cup { ScenarioFrame, Frame(AllColumns, <<>>) }

\* the dtypes to_dataframe gives the columns: a date column is
\* datetime64[ns]; a numeric column that holds a NULL or a fraction is
\* float64, and any other is int64 or float64 as the table declares it
RawDtypes(df, declared) ==
    [col \in df.columns |->
        IF col = "PREVIOUS_PURCHASE" THEN "datetime64[ns]"
        ELSE IF \E k \in DOMAIN df.rows :
                    \/ IsNA(df.rows[k][col])
                    \/ Get(df.rows[k][col]) % 10 # 0
        THEN "float64"
        ELSE declared]

InitCleaner ==
    /\ \E df \in CleanerFrames, declared \in {"int64", "float64"} :
           cHist = << [frame |-> df, dtypes |-> RawDtypes(df, declared)] >>
    /\ DecileIdle /\ model = NA /\ PredictorIdle
    /\ RunIdle /\ bq_table = <<>> /\ csv_file = NA
    /\ ScoringIdle /\ ConfigIdle /\ ClientIdle

CleanerStep(n) ==
    /\ cHist # <<>>
    /\ Len(cHist) < 1 + 3 * MaxPasses
    /\ Len(cHist) % 3 = n

\* df = self._fill_missing_values(df)
FillStep ==
    /\ CleanerStep(1)
    /\ LET c == cHist[Len(cHist)]
       IN  cHist' = Append(cHist, [frame |-> fill_missing_values(c.frame),
                                   dtypes |-> fill_dtypes(c.frame, c.dtypes)])
    /\ UNCHANGED <<decileVars, model, predictorVars, runVars, scoringVars,
                   configVars, clientVars>>

\* df = self._fix_negative_values(df)
FixStep ==
    /\ CleanerStep(2)
    /\ LET c == cHist[Len(cHist)]
       IN  cHist' = Append(cHist, [frame |-> fix_negative_values(c.frame),
                                   dtypes |-> fix_dtypes(c.frame, c.dtypes)])
    /\ UNCHANGED <<decileVars, model, predictorVars, runVars, scoringVars,
                   configVars, clientVars>>

\* df = self._convert_data_types(df); return df
ConvertStep ==
    /\ CleanerStep(0)
    /\ LET c == cHist[Len(cHist)]
       IN  cHist' = Append(cHist, [frame |-> convert_data_types(c.frame),
                                   dtypes |-> convert_dtypes(c.frame, c.dtypes)])
    /\ UNCHANGED <<decileVars, model, predictorVars, runVars, scoringVars,
                   configVars, clientVars>>

NextCleaner == FillStep \/ FixStep \/ ConvertStep

SpecCleaner == InitCleaner /\ [][NextCleaner]_vars

----------------------------------------------------------------------------
(* SpecScoring: one cleaned frame scored by PurchasePredictor.predict or   *)
(* by the script's extratrees_predict, and the result formatted            *)

\* probabilities the classifier returns here: the first interior edge, 0.5
\* and a value above 1
ScoreProbs == { DECILE_BINS[2], ProbOne \div 2, ProbOne + 1 }

ScoreResponses(n) ==
    { [raises |-> TRUE, p |-> <<>>] } \cup
    { [raises |-> FALSE, p |-> v] : v \in [1..n -> ScoreProbs] }

\* row index labels of an n-row frame: 0..n-1 in order (what to_dataframe
\* gives), in another order, or with a label repeated (what a caller's
\* filtered or concatenated frame may carry)
IndexLabels(n) == [1..n -> 0..(MaxRows - 1)]

\* a cleaned frame, the labels its rows carry and the classifier's answer
InitScoring ==
    /\ \E df \in CleanFrames :
           \E ix \in IndexLabels(Len(df.rows)),
              resp \in ScoreResponses(Len(df.rows)) :
               batch = [df |-> df, index |-> ix, resp |-> resp]
    /\ scored = NA /\ formatted = NA
    /\ model = load_model(NA, "ok").model
    /\ DecileIdle /\ PredictorIdle
    /\ RunIdle /\ bq_table = <<>> /\ csv_file = NA
    /\ CleanerIdle /\ ConfigIdle /\ ClientIdle

\* predictions = predictor.predict(data)
ScoreWithPredict ==
    /\ IsNA(scored)
    /\ LET r == predict(model, batch.df, batch.resp)
       IN  scored' = Val([by |-> "predict", err |-> r.err, out |-> r.out,
                          index |-> IF r.err = NoError
                                    THEN RangeIndex(Len(Get(r.out))) ELSE <<>>])
    /\ UNCHANGED <<batch, formatted, model, decileVars, predictorVars, runVars,
                   cleanerVars, configVars, clientVars>>

\* output = extratrees_predict(data, model)
ScoreWithExtratrees ==
    /\ IsNA(scored)
    /\ LET r == extratrees_predict(batch.df, batch.index, batch.resp)
       IN  scored' = Val([by |-> "extratrees_predict", err |-> r.err,
                          out |-> r.out, index |-> r.index])
    /\ UNCHANGED <<batch, formatted, model, decileVars, predictorVars, runVars,
                   cleanerVars, configVars, clientVars>>

\* _prepare_output(predictions), and likewise the statements of the script's
\* main that follow extratrees_predict
FormatOutput ==
    /\ ~IsNA(scored) /\ Get(scored).err = NoError
    /\ IsNA(formatted)
    /\ LET r == prepare_output(Get(Get(scored).out))
       IN  formatted' = Val([err |-> r.err, out |-> r.out,
                             index |-> IF r.err = NoError
                                       THEN reset_index(Get(scored).index)
                                       ELSE <<>>])
    /\ UNCHANGED <<batch, scored, model, decileVars, predictorVars, runVars,
                   cleanerVars, configVars, clientVars>>

NextScoring == ScoreWithPredict \/ ScoreWithExtratrees \/ FormatOutput

SpecScoring == InitScoring /\ [][NextScoring]_vars

----------------------------------------------------------------------------
(* SpecConfig: Config.from_env under one environment *)

\* a variable is unset, set to the empty string or set to a value
EnvValues == { NA, Val(""), Val("custom") }

InitConfig ==
    /\ \E env \in [EnvNames -> EnvValues], exists \in BOOLEAN :
           environ = Val([env |-> env, exists |-> exists])
    /\ config = NA
    /\ DecileIdle /\ model = NA /\ PredictorIdle
    /\ RunIdle /\ bq_table = <<>> /\ csv_file = NA
    /\ CleanerIdle /\ ScoringIdle /\ ClientIdle

\* config = Config.from_env()
FromEnv ==
    /\ ~IsNA(environ) /\ IsNA(config)
    /\ config' = Val(from_env(Get(environ).env, Get(environ).exists))
    /\ UNCHANGED <<environ, decileVars, model, predictorVars, runVars,
                   cleanerVars, scoringVars, clientVars>>

NextConfig == FromEnv

SpecConfig == InitConfig /\ [][NextConfig]_vars

----------------------------------------------------------------------------
(* SpecClient: calls on one BigQueryClient (utils/bigquery_client.py) *)

\* calls made on the wrapper
MaxCalls == 4

\* the bq_client property on the wrapper w.  ok: bigquery.Client(...) returns
\* rather than raises.  made counts the clients constructed.
bq_client(w, ok) ==
    IF IsNA(w._bq_client)
    THEN IF ok
         THEN [w |-> [w EXCEPT !._bq_client = Val("open")], made |-> 1,
               err |-> NoError, returned |-> Val("open")]
         ELSE [w |-> w, made |-> 0, err |-> Error("ClientError"),
               returned |-> NA]
    ELSE [w |-> w, made |-> 0, err |-> NoError, returned |-> w._bq_client]

\* the bq_storage_client property
bq_storage_client(w, ok) ==
    IF IsNA(w._bq_storage_client)
    THEN IF ok
         THEN [w |-> [w EXCEPT !._bq_storage_client = Val("open")],
               err |-> NoError]
         ELSE [w |-> w, err |-> Error("ClientError")]
    ELSE [w |-> w, err |-> NoError]

\* query_to_dataframe(query): self.bq_client.query(query).result(), then
\* result.to_dataframe(bqstorage_client=self.bq_storage_client).  oks tells
\* which of the four steps return rather than raise.
query_to_dataframe(w, oks) ==
    LET c == bq_client(w, oks.client)
    IN  IF c.err # NoError THEN [w |-> c.w, made |-> c.made, err |-> c.err]
        ELSE IF ~oks.query
        THEN [w |-> c.w, made |-> c.made, err |-> Error("SourceError")]
        ELSE LET st == bq_storage_client(c.w, oks.storage)
             IN  IF st.err # NoError
                 THEN [w |-> st.w, made |-> c.made, err |-> st.err]
                 ELSE IF ~oks.to_dataframe
                 THEN [w |-> st.w, made |-> c.made, err |-> Error("SourceError")]
                 ELSE [w |-> st.w, made |-> c.made, err |-> NoError]

InitClient ==
    /\ ClientIdle
    /\ DecileIdle /\ model = NA /\ PredictorIdle
    /\ RunIdle /\ bq_table = <<>> /\ csv_file = NA
    /\ CleanerIdle /\ ScoringIdle /\ ConfigIdle

\* what a call did: the cached client before and after it, the clients it
\* constructed, and what it returned or raised
Logged(op, before, after, made, e, returned) ==
    [op |-> op, before |-> before, after |-> after, made |-> made,
     err |-> e, returned |-> returned]

MoreCalls == Len(log) < MaxCalls

\* client = wrapper.bq_client
AccessClient ==
    /\ MoreCalls
    /\ \E ok \in BOOLEAN :
           LET r == bq_client(bqc, ok)
           IN  /\ bqc' = r.w
               /\ created' = created + r.made
               /\ log' = Append(log, Logged("bq_client", bqc._bq_client,
                                            r.w._bq_client, r.made, r.err,
                                            r.returned))
    /\ UNCHANGED <<decileVars, model, predictorVars, runVars, cleanerVars,
                   scoringVars, configVars>>

\* wrapper.query_to_dataframe(query)
QueryToDataframe ==
    /\ MoreCalls
    /\ \E oks \in [client : BOOLEAN, query : BOOLEAN, storage : BOOLEAN,
                    to_dataframe : BOOLEAN] :
           LET r == query_to_dataframe(bqc, oks)
           IN  /\ bqc' = r.w
               /\ created' = created + r.made
               /\ log' = Append(log, Logged("query_to_dataframe", bqc._bq_client,
                                            r.w._bq_client, r.made, r.err, NA))
    /\ UNCHANGED <<decileVars, model, predictorVars, runVars, cleanerVars,
                   scoringVars, configVars>>

\* wrapper.upload_to_bigquery(df, table): df.to_gbq with the credentials;
\* neither property is read
UploadToBigquery ==
    /\ MoreCalls
    /\ \E ok \in BOOLEAN :
           log' = Append(log, Logged("upload_to_bigquery", bqc._bq_client,
                                     bqc._bq_client, 0,
                                     IF ok THEN NoError ELSE Error("UploadError"),
                                     NA))
    /\ UNCHANGED <<bqc, created, decileVars, model, predictorVars, runVars,
                   cleanerVars, scoringVars, configVars>>

\* wrapper.close()
CloseClient ==
    /\ MoreCalls
    /\ bqc' = [bqc EXCEPT !._bq_client = close(@)]
    /\ log' = Append(log, Logged("close", bqc._bq_client, bqc'._bq_client, 0,
                                 NoError, NA))
    /\ UNCHANGED <<created, decileVars, model, predictorVars, runVars,
                   cleanerVars, scoringVars, configVars>>

NextClient == AccessClient \/ QueryToDataframe \/ UploadToBigquery \/ CloseClient

SpecClient == InitClient /\ [][NextClient]_vars

----------------------------------------------------------------------------
(* Claims about the decile assignment (SpecDecile) *)

InUnit(p) == 0 <= p /\ p <= ProbOne

\* the column has been bucketed and cast without an exception
Bucketed == dPc = "done" /\ dErr = NoError

\* C1: decile assignment is monotone non-decreasing in probability: of two
\* probabilities p1 < p2 in [0,1] that were bucketed, the higher one never
\* has the lower decile.
C1_DecileMonotone ==
    (Bucketed /\ Len(dP) = 2 /\ InUnit(dP[1]) /\ InUnit(dP[2]) /\ dP[1] < dP[2])
        => dInt[1] <= dInt[2]

\* C2: every probability in the bin ending at 0.19662877 gets decile 1 and
\* every probability in the bin (0.77079006, 1.0] gets decile 10; decile(1.0)
\* is 10.
C2_EndBins ==
    (dPc = "done" /\ Len(dP) = 1) =>
        /\ (0 < dP[1] /\ dP[1] <= DECILE_BINS[2])
               => (dErr = NoError /\ dInt = <<1>>)
        /\ (DECILE_BINS[10] < dP[1] /\ dP[1] <= ProbOne)
               => (dErr = NoError /\ dInt = <<10>>)

\* C3: a probability of exactly 0.0 is classified: it gets decile 1, not a
\* missing value and not a failure.
C3_ZeroClassified ==
    (dPc \in {"astype", "done"} /\ Len(dP) = 1 /\ dP[1] = 0) =>
        /\ ~IsNA(dLabel[1])
        /\ dPc = "done" => (dErr = NoError /\ dInt = <<1>>)

\* the interior edges b_1 .. b_9 are DECILE_BINS[2] .. DECILE_BINS[10]; the
\* bins next to DECILE_BINS[j] are bin j-2 below it, labelled
\* DECILE_LABELS[j-1], and bin j-1 above it, labelled DECILE_LABELS[j]
InteriorEdges == 2..(Len(DECILE_BINS) - 1)

\* C4 as stated: a probability equal to an interior edge is assigned to the
\* upper of the two adjacent bins; decile(0.19662877) = 9 and
\* decile(0.77079006) = 10.
C4_EdgeInUpperBin ==
    (dPc = "done" /\ Len(dP) = 1) =>
        /\ \A j \in InteriorEdges :
               dP[1] = DECILE_BINS[j] => dLabel[1] = DECILE_LABELS[j]
        /\ dP[1] = 19662877 => dInt = <<9>>
        /\ dP[1] = 77079006 => dInt = <<10>>

\* C4 amended: a probability equal to an interior edge is assigned to the
\* lower of the two adjacent bins (the bins are closed on the right): it gets
\* that bin's label, the same decile as the probability just below the edge
\* and another decile than the probability just above it.
C4_EdgeInLowerBin ==
    dPc = "done" =>
        \A j \in InteriorEdges :
            /\ (Len(dP) = 1 /\ dP[1] = DECILE_BINS[j])
                   => (dErr = NoError /\ dLabel[1] = DECILE_LABELS[j - 1])
            /\ (Len(dP) = 2 /\ dP[1] = DECILE_BINS[j] - 1 /\ dP[2] = DECILE_BINS[j]
                   /\ dP[1] > 0)
                   => (dErr = NoError /\ dInt[1] = dInt[2])
            /\ (Len(dP) = 2 /\ dP[1] = DECILE_BINS[j] /\ dP[2] = DECILE_BINS[j] + 1)
                   => (dErr = NoError /\ dInt[1] # dInt[2])

\* 0.77079006, the edge below the top bin, has been bucketed with its two
\* neighbours' deciles known
C4_Witness ==
    /\ Bucketed /\ Len(dP) = 2
    /\ dP[1] = DECILE_BINS[10] /\ dP[2] = DECILE_BINS[10] + 1
    /\ dLabel[1] = DECILE_LABELS[9]

----------------------------------------------------------------------------
(* Claims about PredictionPipeline.run (Spec) *)

ValidRecord(r) == InUnit(r.P) /\ r.DECILE \in 1..10

\* run holds formatted predictions: _prepare_output has returned them
Formatted == pc \in {"upload", "save_local"} \/ (pc \in {"finally", "done"} /\ err = NoError)

\* C5: every ScoredRecord a successful run returns or hands to a sink has a
\* probability in [0,1] and an integer decile in 1..10.
C5_ScoredRecordsValid ==
    /\ Formatted => \A k \in DOMAIN Get(predictions) : ValidRecord(Get(predictions)[k])
    /\ \A k \in DOMAIN bq_table : ValidRecord(bq_table[k])
    /\ ~IsNA(csv_file) => \A k \in DOMAIN Get(csv_file) : ValidRecord(Get(csv_file)[k])

\* a run returned two records that it wrote to both sinks
C5_Witness ==
    /\ outcome = "returned"
    /\ Len(Get(predictions)) = 2
    /\ Get(predictions)[1].DECILE # Get(predictions)[2].DECILE
    /\ bq_table = sink0.bq \o Get(predictions)
    /\ csv_file = predictions

\* the classifier was invoked in this run and returned a probability
\* outside [0,1]
OutOfRangeScored ==
    /\ ~IsNA(proba) /\ ~Get(proba).raises
    /\ \E k \in DOMAIN Get(proba).p : ~InUnit(Get(proba).p[k])

\* C6 as stated: decile assignment given a probability outside [0,1] fails
\* with a ValueOutOfRangeError raised by the assigner itself (inside predict);
\* no decile and no missing decile is returned for it.
C6_OutOfRangeRaisesInPredict ==
    OutOfRangeScored =>
        /\ pc \in {"finally", "done"}
        /\ err.kind = "ValueOutOfRangeError"
        /\ IsNA(predictions)

\* C6 amended: decile assignment given a probability outside [0,1] does not
\* fail and does not clamp: predict returns the record with a missing
\* decile; in run it is the Output Formatter's integer cast that then raises,
\* so the run fails with nothing written to a sink.
C6_OutOfRangeMissingDecile ==
    OutOfRangeScored =>
        /\ pc = "prepare_output" =>
               /\ err = NoError
               /\ \A k \in DOMAIN Get(predictions) :
                      /\ Get(predictions)[k].P = Get(proba).p[k]
                      /\ ~InUnit(Get(predictions)[k].P)
                             => IsNA(Get(predictions)[k].DECILE)
        /\ pc \in {"prepare_output", "finally", "done"}
        /\ pc \in {"finally", "done"} => err = Error("ValueError")
        /\ bq_table = sink0.bq /\ csv_file = sink0.csv

\* predict has returned a record whose probability is above 1, and run has
\* then failed in the formatter
C6_Witness ==
    /\ OutOfRangeScored /\ outcome = "raised"
    /\ Len(Get(predictions)) = 2
    /\ Get(predictions)[1].P = ProbOne + 1 /\ IsNA(Get(predictions)[1].DECILE)
    /\ ~IsNA(Get(predictions)[2].DECILE)

\* C7: a run that raises, at whatever step, has written no scored record to
\* the BigQuery table or to the CSV file.
C7_FailedRunWritesNothing ==
    outcome = "raised" => (bq_table = sink0.bq /\ csv_file = sink0.csv)

\* the feature columns the frame run cleaned does not have
AbsentFeatures(df) == { c \in Range(FEATURE_COLUMNS) : c \notin df.columns }

\* C10 as stated: a missing classifier artifact and a missing required
\* feature column are raised before the Record Cleaner has filled, clamped
\* or type-coerced any record.
C10_RaisedBeforeCleaning ==
    err.kind \in {"FileNotFoundError", "MissingFeatures"} => IsNA(data)

\* C10 amended: a missing classifier artifact and a missing required feature
\* column are raised after the Record Cleaner has cleaned the batch in
\* memory, and before the classifier is invoked, before any record is scored
\* and before anything is written to a sink; the missing-feature error names
\* the absent columns.
C10_RaisedAfterCleaningBeforeScoring ==
    /\ err.kind = "FileNotFoundError" =>
           /\ data = Val(preprocess_data(Get(raw)))
           /\ IsNA(proba) /\ IsNA(predictions)
           /\ bq_table = sink0.bq /\ csv_file = sink0.csv
    /\ (pc \in {"finally", "done"} /\ ~IsNA(data) /\ ~IsNA(model)
            /\ AbsentFeatures(Get(data)) # {}) =>
           /\ data = Val(preprocess_data(Get(raw)))
           /\ err = [kind |-> "MissingFeatures", cols |-> AbsentFeatures(Get(data))]
           /\ IsNA(proba) /\ IsNA(predictions)
           /\ bq_table = sink0.bq /\ csv_file = sink0.csv

\* run raised the missing-feature error for a batch whose negative SALES_6M
\* the cleaner had already clamped
C10_Witness ==
    /\ outcome = "raised" /\ err.kind = "MissingFeatures"
    /\ err.cols = {"NUM_PERIODS", "MARITAL_STAT"}
    /\ Len(Get(raw).rows) = 2
    /\ Get(raw).rows[2]["SALES_6M"] = Val(Whole(-50))
    /\ Get(data).rows[2]["SALES_6M"] = Val(0)

----------------------------------------------------------------------------
(* Claims about PurchasePredictor (SpecPredictor) *)

Called == last.op # "none"

\* C8 as stated: if a required feature column is absent from the frame given
\* to predict, it fails with the missing-feature error naming exactly the
\* absent columns, before the classifier is invoked and without output.
C8_MissingFeatureError ==
    (Called /\ AbsentFeatures(call.df) # {}) =>
        /\ last.err = [kind |-> "MissingFeatures", cols |-> AbsentFeatures(call.df)]
        /\ last.invoked = 0
        /\ IsNA(last.out)

\* C8 amended: the same, provided the classifier is loaded; on a predictor
\* without a model the model-not-loaded error comes first.
C8_MissingFeatureErrorWhenLoaded ==
    (Called /\ AbsentFeatures(call.df) # {}) =>
        /\ ~IsNA(last.model) =>
               last.err = [kind |-> "MissingFeatures", cols |-> AbsentFeatures(call.df)]
        /\ IsNA(last.model) => last.err = Error("ModelNotLoaded")
        /\ last.invoked = 0
        /\ IsNA(last.out)

\* predict was called with a loaded classifier on a two-row frame that lacks
\* two feature columns
C8_Witness ==
    /\ last.op = "predict" /\ ~IsNA(last.model)
    /\ Len(call.df.rows) = 2 /\ ~call.resp.raises
    /\ last.err.cols = {"NUM_PERIODS", "MARITAL_STAT"}

\* C9 as stated: scoring in a state where load_model was never called, or
\* its last call failed, fails with the model-not-loaded error without
\* invoking a classifier and without returning probabilities.
C9_NotLoadedError ==
    (Called /\ last.loads.last \in {"never", "failed"}) =>
        /\ last.err = Error("ModelNotLoaded")
        /\ last.invoked = 0
        /\ IsNA(last.out)

\* C9 amended: scoring in a state where no load_model call has succeeded yet
\* (it was never called, or every call so far failed) fails with the
\* model-not-loaded error without invoking a classifier and without
\* returning probabilities, for predict and for predict_with_metadata; a
\* failed load_model after a successful one leaves the earlier classifier
\* in place.
C9_NeverLoadedError ==
    /\ ~loads.ever_ok => IsNA(model)
    /\ loads.ever_ok => ~IsNA(model)
    /\ (Called /\ ~last.loads.ever_ok) =>
           /\ last.err = Error("ModelNotLoaded")
           /\ last.invoked = 0
           /\ IsNA(last.out)

\* predict_with_metadata was called after load_model had failed, on a frame
\* with every feature and a classifier that would have answered
C9_Witness ==
    /\ last.op = "predict_with_metadata"
    /\ last.loads = [last |-> "failed", ever_ok |-> FALSE]
    /\ AbsentFeatures(call.df) = {} /\ Len(call.df.rows) = 2
    /\ ~call.resp.raises
    /\ last.err = Error("ModelNotLoaded")

----------------------------------------------------------------------------
(* Claims about the Record Cleaner (SpecCleaner) *)

\* the frame _preprocess_data was given, and what its n-th pass returned
RawFrame == cHist[1].frame
Cleaned(n) == cHist[1 + 3 * n]
CleanedOnce == Len(cHist) >= 4
CleanedTwice == Len(cHist) >= 7

HasRequired(df) == Range(FEATURE_COLUMNS) \subseteq df.columns

\* C11: once a raw batch that contains the required columns has been
\* cleaned, no required feature column holds a missing value and no value
\* of SALES_6M or COUPON_EXPENSE_6M is negative; the SALES_6M column
\* [100, -50, 250, 0, 400] comes out as [100, 0, 250, 0, 400].
C11_CleanedIsCompleteAndNonNegative ==
    (CleanedOnce /\ HasRequired(RawFrame)) =>
        LET df == Cleaned(1).frame
        IN  /\ Len(df.rows) = Len(RawFrame.rows)
            /\ \A k \in DOMAIN df.rows :
                   /\ \A col \in Range(FEATURE_COLUMNS) : ~IsNA(df.rows[k][col])
                   /\ \A col \in {"SALES_6M", "COUPON_EXPENSE_6M"} \cap df.columns :
                          ~IsNA(df.rows[k][col]) /\ Get(df.rows[k][col]) >= 0
            /\ RawFrame = ScenarioFrame =>
                   [k \in DOMAIN df.rows |-> df.rows[k]["SALES_6M"]]
                       = << Val(Whole(100)), Val(0), Val(Whole(250)), Val(0),
                            Val(Whole(400)) >>

\* a cleaned batch whose raw SALES_6M was missing and whose raw
\* COUPON_EXPENSE_6M was negative
C11_Witness ==
    /\ CleanedOnce /\ HasRequired(RawFrame)
    /\ \E k \in DOMAIN RawFrame.rows :
           /\ IsNA(RawFrame.rows[k]["SALES_6M"])
           /\ "COUPON_EXPENSE_6M" \in RawFrame.columns
           /\ ~IsNA(RawFrame.rows[k]["COUPON_EXPENSE_6M"])
           /\ Get(RawFrame.rows[k]["COUPON_EXPENSE_6M"]) < 0

\* the fill values as the claim gives them, column by column
ExpectedFill(col) ==
    CASE col \in {"BBB_INSTORE_RFM_DECILE", "BBB_ECOM_R_DECILE",
                  "BBB_OFFCOUPON_RFM_DECILE"} -> Whole(11)
      [] col = "INSTORE_R" -> Whole(366)
      [] OTHER -> 0

\* C12: the fill step gives a missing value 11 in a column whose name
\* contains DECILE (also when the name contains _R), 366 in any other
\* column whose name contains _R, and 0 in every other column; a value
\* that is not missing is left as it was.
C12_FillByName ==
    Len(cHist) >= 2 =>
        LET df == cHist[2].frame
        IN  \A k \in DOMAIN RawFrame.rows : \A col \in RawFrame.columns :
                df.rows[k][col] =
                    IF IsNA(RawFrame.rows[k][col]) THEN Val(ExpectedFill(col))
                    ELSE RawFrame.rows[k][col]

\* a filled batch whose raw BBB_ECOM_R_DECILE and INSTORE_R were missing
C12_Witness ==
    /\ Len(cHist) >= 2
    /\ \E k \in DOMAIN RawFrame.rows :
           /\ IsNA(RawFrame.rows[k]["BBB_ECOM_R_DECILE"])
           /\ IsNA(RawFrame.rows[k]["INSTORE_R"])
           /\ ~IsNA(RawFrame.rows[k]["BBB_INSTORE_RFM_DECILE"])

\* C13: cleaning what cleaning returned returns it again, value for value
\* and dtype for dtype.
C13_CleaningIdempotent ==
    CleanedTwice => Cleaned(2) = Cleaned(1)

\* a batch cleaned twice whose first cleaning changed a value and a dtype
C13_Witness ==
    /\ CleanedTwice
    /\ Cleaned(1).frame # RawFrame
    /\ Cleaned(1).dtypes # cHist[1].dtypes
    /\ "SALES_6M" \in RawFrame.columns
    /\ \E k \in DOMAIN RawFrame.rows : RawFrame.rows[k]["SALES_6M"] = Val(2507)

----------------------------------------------------------------------------
(* Claims about what the pipeline passes through (Spec) *)

\* C14: the previous_purchase of every record that run has formatted is the
\* one the raw input gave that record, a missing one included.
C14_PreviousPurchaseUnchanged ==
    Formatted =>
        /\ Len(Get(predictions)) = Len(Get(raw).rows)
        /\ \A k \in DOMAIN Get(predictions) :
               Get(predictions)[k].PREVIOUS_PURCHASE
                   = Get(raw).rows[k]["PREVIOUS_PURCHASE"]

----------------------------------------------------------------------------
(* Claims about scoring and formatting (SpecScoring) *)

ScoredOk == ~IsNA(scored) /\ Get(scored).err = NoError

\* row k of the output is input record k with the probability the
\* classifier returned for row k
Positional ==
    LET out == Get(Get(scored).out)
    IN  /\ Len(out) = Len(batch.df.rows)
        /\ \A k \in DOMAIN out :
               /\ out[k].CUSTOMER_ID = batch.df.rows[k]["CUSTOMER_ID"]
               /\ out[k].PREVIOUS_PURCHASE = batch.df.rows[k]["PREVIOUS_PURCHASE"]
               /\ out[k].P = batch.resp.p[k]

DistinctLabels(index) ==
    \A i \in DOMAIN index, j \in DOMAIN index : index[i] = index[j] => i = j

\* C15 as stated: scoring returns one output row per input record in the
\* same position, with that record's customer_id and previous_purchase and
\* the probability returned for it, whatever row index labels the input
\* carries.
C15_PositionalWhateverLabels == ScoredOk => Positional

\* C15 amended: PurchasePredictor.predict returns one output row per input
\* record in the same position whatever row index labels the input carries;
\* extratrees_predict does so when no two rows carry the same label.
C15_PositionalUnlessLabelsRepeat ==
    (/\ ScoredOk
     /\ \/ Get(scored).by = "predict"
        \/ DistinctLabels(batch.index)) => Positional

\* predict has scored two different records, given different probabilities,
\* that carry the same index label
C15_Witness ==
    /\ ScoredOk /\ Get(scored).by = "predict"
    /\ Len(batch.df.rows) = 2
    /\ batch.index[1] = batch.index[2]
    /\ batch.df.rows[1] # batch.df.rows[2]
    /\ batch.resp.p[1] # batch.resp.p[2]

FormattedOk == ~IsNA(formatted) /\ Get(formatted).err = NoError

\* C16: the Output Formatter returns the records it was given in the order
\* it was given them, none dropped or repeated, and numbers the rows
\* 0, 1, ..., n-1.
C16_OrderKeptAndRenumbered ==
    FormattedOk =>
        LET inp == Get(Get(scored).out)
            out == Get(formatted).out
        IN  /\ Len(out) = Len(inp)
            /\ \A k \in DOMAIN out :
                   /\ out[k].CUSTOMER_ID = Val(Trunc(Get(inp[k].CUSTOMER_ID)))
                   /\ out[k].P = inp[k].P
            /\ Get(formatted).index = RangeIndex(Len(inp))

\* the formatter was given two different records whose index labels were
\* 1 and 0
C16_Witness ==
    /\ FormattedOk
    /\ Get(scored).index = <<1, 0>>
    /\ Get(Get(scored).out)[1] # Get(Get(scored).out)[2]

----------------------------------------------------------------------------
(* Claims about the bin edges and labels (SpecDecile) *)

\* p lies in the bin (DECILE_BINS[b], DECILE_BINS[b+1]]
InBin(p, b) == DECILE_BINS[b] < p /\ p <= DECILE_BINS[b + 1]

\* C17: DECILE_BINS has 11 ascending edges from 0.0 to 1.0 and DECILE_LABELS
\* has 10 labels, one per bin; every probability p with 0 < p <= 1 that has
\* been bucketed lies in exactly one bin and has that bin's label.
C17_OneBinOneLabel ==
    /\ Len(DECILE_BINS) = 11
    /\ DECILE_BINS[1] = 0 /\ DECILE_BINS[Len(DECILE_BINS)] = ProbOne
    /\ \A i \in 1..(Len(DECILE_BINS) - 1) : DECILE_BINS[i] < DECILE_BINS[i + 1]
    /\ Len(DECILE_LABELS) = 10
    /\ \A i \in DOMAIN DECILE_LABELS, j \in DOMAIN DECILE_LABELS :
           DECILE_LABELS[i] = DECILE_LABELS[j] => i = j
    /\ dPc # "cut" =>
           \A i \in DOMAIN dP :
               (0 < dP[i] /\ dP[i] <= ProbOne) =>
                   \E b \in DOMAIN DECILE_LABELS :
                       /\ InBin(dP[i], b)
                       /\ \A c \in DOMAIN DECILE_LABELS : InBin(dP[i], c) => c = b
                       /\ dLabel[i] = DECILE_LABELS[b]

\* 1.0 and a probability just above an interior edge have been bucketed
C17_Witness ==
    /\ dPc # "cut"
    /\ Len(dP) = 2
    /\ dP[1] = ProbOne
    /\ dP[2] = DECILE_BINS[5] + 1
    /\ dLabel[1] # dLabel[2]

----------------------------------------------------------------------------
(* Claims about the configuration (SpecConfig) *)

\* from_env has returned a Config
Configured == ~IsNA(config) /\ Get(config).err = NoError

\* the field is the variable's value when the variable is set and the
\* default otherwise
FromVariable(field, name, default) ==
    LET env == Get(environ).env
    IN  field = IF IsNA(env[name]) THEN Val(default) ELSE env[name]

\* C18: the Config from_env returns has bq_dataset, bq_input_table,
\* bq_output_table, model_path and log_level equal to BQ_DATASET,
\* BQ_INPUT_TABLE, BQ_OUTPUT_TABLE, MODEL_PATH and LOG_LEVEL where set and to
\* SANDBOX_ANALYTICS, TTS_Production, time_to_shop, finalized_model.sav and
\* INFO where not, each field by its own variable, and gcp_project_id equal
\* to GCP_PROJECT_ID.
C18_FieldsFromEnvironment ==
    Configured =>
        LET cfg == Get(Get(config).cfg)
        IN  /\ FromVariable(cfg.bq_dataset, "BQ_DATASET", "SANDBOX_ANALYTICS")
            /\ FromVariable(cfg.bq_input_table, "BQ_INPUT_TABLE", "TTS_Production")
            /\ FromVariable(cfg.bq_output_table, "BQ_OUTPUT_TABLE", "time_to_shop")
            /\ FromVariable(cfg.model_path, "MODEL_PATH", "finalized_model.sav")
            /\ FromVariable(cfg.log_level, "LOG_LEVEL", "INFO")
            /\ cfg.gcp_project_id = Get(environ).env["GCP_PROJECT_ID"]

\* a Config returned under an environment with BQ_DATASET set to a value,
\* MODEL_PATH set to the empty string and BQ_INPUT_TABLE and LOG_LEVEL unset
C18_Witness ==
    /\ Configured
    /\ Get(environ).env["BQ_DATASET"] = Val("custom")
    /\ Get(environ).env["MODEL_PATH"] = Val("")
    /\ IsNA(Get(environ).env["BQ_INPUT_TABLE"])
    /\ IsNA(Get(environ).env["LOG_LEVEL"])
    /\ Get(environ).env["GCP_PROJECT_ID"] = Val("custom")

----------------------------------------------------------------------------
(* Claims about the clients of a run (SpecLive) *)

\* run has returned or its exception has reached the caller
Left == outcome # "none"

BothCloseCalls == closes = <<"data_loader", "bq_client">>

\* C19 as stated: every execution of run, completed or failed at any step,
\* ends with data_loader.close() and the pipeline's bq_client.close() called
\* before the result or the exception reaches the caller, and leaves no
\* client that it opened unclosed.
C19_NoClientLeftOpen ==
    Left =>
        /\ BothCloseCalls
        /\ dl_client # Val("open") /\ pl_client # Val("open")
        /\ dl_storage # Val("open")

\* C19 amended: every execution of run that is entered leaves, and when it
\* leaves both close() calls have been made and no bigquery.Client that it
\* created is open; the pipeline's own wrapper never creates one; the
\* BigQuery Storage client that the query created is still open.
C19_BothClosesBeforeLeaving ==
    /\ [](Left => /\ BothCloseCalls
                   /\ dl_client # Val("open")
                   /\ IsNA(pl_client))
    /\ [](~IsNA(dl_storage) => dl_storage = Val("open"))
    /\ (pc = "load_data") ~> Left

\* a run whose upload failed after the loader had created both of its
\* clients has raised
C19_Witness ==
    /\ outcome = "raised"
    /\ err = Error("UploadError")
    /\ dl_client = Val("closed")
    /\ dl_storage = Val("open")
    /\ BothCloseCalls

----------------------------------------------------------------------------
(* Claims about one BigQueryClient (SpecClient) *)

\* C20: over any sequence of bq_client accesses, queries, uploads and close()
\* calls on one BigQueryClient at most one bigquery.Client is created: by the
\* first access (or query), lazily; every later access returns the cached
\* one; close() before any access does nothing; close() keeps the cached
\* client, so an access after close() returns the closed client and creates
\* none.
C20_OneClientPerWrapper ==
    /\ created <= 1
    /\ created = 0 <=> IsNA(bqc._bq_client)
    /\ \A i \in DOMAIN log :
           LET c == log[i]
           IN  /\ c.op = "bq_client" /\ c.err = NoError =>
                      /\ c.returned = c.after /\ ~IsNA(c.returned)
                      /\ IsNA(c.before) => c.made = 1 /\ c.returned = Val("open")
                      /\ ~IsNA(c.before) => c.made = 0 /\ c.returned = c.before
               /\ c.op = "close" =>
                      /\ c.made = 0
                      /\ IsNA(c.before) => IsNA(c.after)
                      /\ ~IsNA(c.before) => c.after = Val("closed")
               /\ c.op = "upload_to_bigquery" => c.made = 0 /\ c.after = c.before
               /\ c.op = "query_to_dataframe" =>
                      /\ c.made = 1 => IsNA(c.before) /\ c.after = Val("open")
                      /\ ~IsNA(c.before) => c.made = 0 /\ c.after = c.before

\* close() before any access, then a query that created the client, close()
\* again, and an access that returned the closed client
C20_Witness ==
    /\ Len(log) = 4
    /\ log[1].op = "close" /\ IsNA(log[1].after)
    /\ log[2].op = "query_to_dataframe" /\ log[2].made = 1
    /\ log[3].op = "close"
    /\ log[4].op = "bq_client" /\ log[4].returned = Val("closed")
    /\ created = 1

====
